---- MODULE Spec2Model ----
(***************************************************************************)
(* Model of nwc-phoenixd: the settlement ledger (src/src/modules/db.ts,    *)
(* class DB over node:sqlite) and the phoenixd node adapter                *)
(* (src/unnamed/part_000, class Phoenixd).                                 *)
(*                                                                         *)
(* The ledger is the value of the sqlite database: three tables, each a    *)
(* set of rows.  Every DB method is a pure operator from a database value  *)
(* and the call's arguments to the database value afterwards and what the  *)
(* call returned ("throw" when it raised).  A statement that raises an     *)
(* unexpected error (an I/O error, a value sqlite cannot bind) is the      *)
(* input `fault`; it names the statement that raises.                      *)
(***************************************************************************)
EXTENDS Integers, Sequences, FiniteSets, TLC

\* ------------------------------------------------------------------ bounds

\* the number of DB calls of a run, and the last reading of the clock
MaxCalls == 3
MaxTime == 2
\* the newest WebSockets the model keeps of those a run creates, the payments it
\* pushes on the queue, and the syncPaymentsSince calls that await the node at once
MaxSockets == 2
MaxEnqueues == 3
MaxSyncs == 1
\* the restarts of the process
MaxRestarts == 1

\* --------------------------------------------------------------- constants

\* client public keys, payment hashes, wallet states: small input sets
Keys == {"k1", "k2"}
Hashes == {"h1"}
NoHash == ""
Amounts == {1000}
FeeAmounts == {0, 1}
\* settledAt values the node adapter hands over, and the routing fee of a payment
SettledAts == {10, 21}
FeesPaid == {4000}
DEFAULT_EXPIRY == 120

WalletStates ==
  { [balance |-> b, channelSize |-> 0, feeCredit |-> 0] : b \in {0, 1000} }

Undefined == "undefined"

Faults == {"none", "fees", "wallet"}

VARIABLES
  \* class DB
  db,        \* the sqlite database: [records, wallets, fees, seq]
  clock,     \* now(): the wall clock in whole seconds
  last,      \* the last DB call: its name, its key, id and hash arguments, its result
  calls,     \* the number of DB calls made so far
  feeSums,   \* the fees passed to addMiningFeePaid so far, and the fees of the
             \* settleInvoice calls that returned true so far: [paid, received]
  \* class Phoenixd
  started,   \* start() was called
  socks,     \* every WebSocket created by subscribe(), by creation order: its readyState
  ws,        \* this.ws: an index of socks, 0 for undefined
  timers,    \* onclose handlers sleeping their 1000 ms before subscribe()
  lookups,   \* onMessage calls awaiting payments/incoming/{hash}: how many per payment
  syncs,     \* syncPaymentsSince calls awaiting payments/incoming: their fromSec
  queue,     \* this.incomingPaymentQueue: entries [n, p], n the order of the push
  drains,    \* processIncomingPayments calls suspended at an await: [e, pc]
  estimates, \* estimateMiningFees calls awaiting estimateliquidityfees
  feeTimers, \* pending setTimeout(() => this.estimateMiningFees(), ms): their ms
  estimated, \* how the last finished estimateMiningFees attempt ended: ok, failed
  \* the node
  nodePaid,  \* ids of the incoming payments the node has completed
  \* history
  enqLog,    \* every payment pushed on the queue, in push order
  log,       \* callback invocations and pops: [ev, n], ev in fee, pay, done
  lastSync,  \* the last non-empty list the node returned to syncPaymentsSince, and
             \* the number of payments pushed before it: [list, base]
  boot       \* the restarts of the process so far, and the payments the node had
             \* completed and the ledger had not settled at the last one: [n, open]

ledgerVars == <<db, clock, last, calls, feeSums>>
adapterVars ==
  <<started, socks, ws, timers, lookups, syncs, queue, drains, estimates,
    feeTimers, estimated, nodePaid, enqLog, log, lastSync, boot>>
vars == <<ledgerVars, adapterVars>>

\* ------------------------------------------------------------------ schema

\* CREATE TABLE records: a new incoming row with the column defaults
NewInvoiceRow(id, pubkey, createdAt) ==
  [ id |-> id, pubkey |-> pubkey, is_outgoing |-> 0, is_paid |-> 0,
    payment_hash |-> NoHash, amount |-> 0, fees_paid |-> 0,
    created_at |-> createdAt, expires_at |-> 0, settled_at |-> 0 ]

\* the row createPayment inserts
NewPaymentRow(id, pubkey, hash, amount, createdAt) ==
  [ id |-> id, pubkey |-> pubkey, is_outgoing |-> 1, is_paid |-> 0,
    payment_hash |-> hash, amount |-> amount, fees_paid |-> 0,
    created_at |-> createdAt, expires_at |-> 0, settled_at |-> 0 ]

EmptyDb == [ records |-> {}, wallets |-> {}, fees |-> {}, seq |-> 0 ]

\* ------------------------------------------------------------ transactions

\* BEGIN TRANSACTION: the database as it was when the transaction began
Begin(d) == d

\* ROLLBACK TRANSACTION: every statement since BEGIN is undone
Rollback(tx0, cur) == tx0

\* COMMIT TRANSACTION
Commit(cur) == cur

\* --------------------------------------------------------------- DB: fees

\* a mutant: on conflict the paid counter is overwritten
UpsertFeePaidOverwrites(d, fee) ==
  [ d EXCEPT !.fees =
      IF d.fees = {}
        THEN { [id |-> 1, mining_fee_paid |-> fee, mining_fee_received |-> 0] }
        ELSE { [f EXCEPT !.mining_fee_paid = fee] : f \in d.fees } ]

\* INSERT INTO fees (1, fee, 0) ON CONFLICT(id) DO UPDATE mining_fee_paid += fee
UpsertFeePaid(d, fee) ==
  [ d EXCEPT !.fees =
      IF d.fees = {}
        THEN { [id |-> 1, mining_fee_paid |-> fee, mining_fee_received |-> 0] }
        ELSE { [f EXCEPT !.mining_fee_paid = @ + fee] : f \in d.fees } ]

\* INSERT INTO fees (1, 0, fee) ON CONFLICT(id) DO UPDATE mining_fee_received += fee
UpsertFeeReceived(d, fee) ==
  [ d EXCEPT !.fees =
      IF d.fees = {}
        THEN { [id |-> 1, mining_fee_paid |-> 0, mining_fee_received |-> fee] }
        ELSE { [f EXCEPT !.mining_fee_received = @ + fee] : f \in d.fees } ]

\* getFees(): the fee row's counters, 0 when there is no row
GetFees(d) ==
  IF d.fees = {}
    THEN [miningFeePaid |-> 0, miningFeeReceived |-> 0]
    ELSE LET rec == CHOOSE f \in d.fees : f.id = 1
         IN [miningFeePaid |-> rec.mining_fee_paid,
             miningFeeReceived |-> rec.mining_fee_received]

\* addMiningFeePaid(fee)
AddMiningFeePaid(d, fee) == [db |-> UpsertFeePaid(d, fee), ret |-> "ok"]

\* ------------------------------------------------------------ DB: wallets

\* updateWalletState: INSERT INTO wallets ... ON CONFLICT(pubkey) DO UPDATE
UpdateWalletState(d, clientPubkey, walletState) ==
  LET row == [ pubkey |-> clientPubkey, balance |-> walletState.balance,
               channel_size |-> walletState.channelSize,
               fee_credit |-> walletState.feeCredit ]
  IN [ d EXCEPT !.wallets =
         IF \E w \in d.wallets : w.pubkey = clientPubkey
           THEN { IF w.pubkey = clientPubkey THEN row ELSE w : w \in d.wallets }
           ELSE d.wallets \cup {row} ]

\* listWallets()
ListWallets(d) ==
  { [ pubkey |-> w.pubkey,
      state |-> [balance |-> w.balance, channelSize |-> w.channel_size,
                 feeCredit |-> w.fee_credit] ] : w \in d.wallets }

\* ----------------------------------------------------------- DB: invoices

\* createInvoice(clientPubkey): AUTOINCREMENT id, created_at = now()
CreateInvoice(d, clientPubkey, now) ==
  [ db |-> [ d EXCEPT !.seq = @ + 1,
                      !.records = @ \cup {NewInvoiceRow(d.seq + 1, clientPubkey, now)} ],
    ret |-> d.seq + 1 ]

\* deleteInvoice(id): DELETE FROM records WHERE id = ? AND is_outgoing = 0
DeleteInvoice(d, id) ==
  [ db |-> [ d EXCEPT !.records =
               { r \in @ : ~(r.id = id /\ r.is_outgoing = 0) } ],
    ret |-> "ok" ]

\* a mutant: completeInvoice also resets the paid flag
CompleteInvoiceResetsPaid(d, id, invoice) ==
  [ db |-> [ d EXCEPT !.records =
               { IF r.id = id
                   THEN [ r EXCEPT !.payment_hash = invoice.payment_hash,
                                   !.amount = invoice.amount, !.is_paid = 0 ]
                   ELSE r : r \in @ } ],
    ret |-> "ok" ]

\* completeInvoice(id, invoice): UPDATE records SET ... WHERE id = ?
CompleteInvoice(d, id, invoice) ==
  LET changes == Cardinality({ r \in d.records : r.id = id })
      upd == [ d EXCEPT !.records =
                 { IF r.id = id
                     THEN [ r EXCEPT !.payment_hash = invoice.payment_hash,
                                     !.amount = invoice.amount,
                                     !.created_at = invoice.created_at,
                                     !.expires_at = invoice.expires_at ]
                     ELSE r : r \in @ } ]
  IN IF changes # 1 THEN [db |-> d, ret |-> "throw"]
                    ELSE [db |-> upd, ret |-> "ok"]

\* getInvoiceById(id): SELECT * FROM records WHERE id = ? AND is_outgoing = 0
GetInvoiceById(d, id) == { r \in d.records : r.id = id /\ r.is_outgoing = 0 }

\* const { clientPubkey: expectedPubkey } = this.getInvoiceById(id) || {}
ExpectedPubkey(d, id) ==
  IF GetInvoiceById(d, id) = {}
    THEN Undefined
    ELSE (CHOOSE r \in GetInvoiceById(d, id) : TRUE).pubkey

\* a mutant: the ownership check never rejects
PubkeyMismatchNever(expectedPubkey, clientPubkey) == FALSE

\* if (expectedPubkey !== clientPubkey) throw
PubkeyMismatch(expectedPubkey, clientPubkey) == expectedPubkey # clientPubkey

\* a mutant: the update lacks AND is_paid = 0
InvoicePaidRowsAny(d, id) == { r \in d.records : r.id = id }

\* the rows of UPDATE records ... WHERE id = ? AND is_paid = 0
InvoicePaidRows(d, id) == { r \in d.records : r.id = id /\ r.is_paid = 0 }

\* a mutant: the update sets the paid flag only
UpdateInvoicePaidNoSettledAt(d, id, settledAt) ==
  [ d EXCEPT !.records =
      { IF r \in InvoicePaidRows(d, id) THEN [r EXCEPT !.is_paid = 1] ELSE r : r \in @ } ]

\* UPDATE records SET is_paid = 1, settled_at = ? WHERE id = ? AND is_paid = 0
UpdateInvoicePaid(d, id, settledAt) ==
  [ d EXCEPT !.records =
      { IF r \in InvoicePaidRows(d, id)
          THEN [r EXCEPT !.is_paid = 1, !.settled_at = settledAt]
          ELSE r : r \in @ } ]

\* a mutant: the catch block re-raises without rolling back
SettleInvoiceCatchNoRollback(tx0, cur) == [db |-> cur, ret |-> "throw"]

\* catch (e) { ROLLBACK TRANSACTION; throw e }
SettleInvoiceCatch(tx0, cur) == [db |-> Rollback(tx0, cur), ret |-> "throw"]

\* settleInvoice(clientPubkey, id, settledAt, walletState, miningFee)
SettleInvoice(d, clientPubkey, id, settledAt, walletState, miningFee, fault) ==
  LET tx0 == Begin(d)
      changes == Cardinality(InvoicePaidRows(d, id))
      d1 == UpdateInvoicePaid(d, id, settledAt)
      d2 == UpsertFeeReceived(d1, miningFee)
      d3 == UpdateWalletState(d2, clientPubkey, walletState)
  IN IF PubkeyMismatch(ExpectedPubkey(d, id), clientPubkey)
       THEN SettleInvoiceCatch(tx0, d)
     ELSE IF changes = 0
       THEN [db |-> Rollback(tx0, d1), ret |-> "false"]
     ELSE IF fault = "fees"
       THEN SettleInvoiceCatch(tx0, d1)
     ELSE IF fault = "wallet"
       THEN SettleInvoiceCatch(tx0, d2)
     ELSE [db |-> Commit(d3), ret |-> "true"]

\* ----------------------------------------------------------- DB: payments

\* createPayment(clientPubkey, invoice): INSERT ... is_outgoing = 1, created_at = now()
CreatePayment(d, clientPubkey, invoice, now) ==
  [ db |-> [ d EXCEPT !.seq = @ + 1,
                      !.records = @ \cup
                        { NewPaymentRow(d.seq + 1, clientPubkey, invoice.payment_hash,
                                        invoice.amount, now) } ],
    ret |-> "ok" ]

\* deletePayment: DELETE FROM records WHERE pubkey = ? AND payment_hash = ?
DeletePayment(d, clientPubkey, paymentHash) ==
  [ db |-> [ d EXCEPT !.records =
               { r \in @ : ~(r.pubkey = clientPubkey /\ r.payment_hash = paymentHash) } ],
    ret |-> "ok" ]

\* the rows of UPDATE records ... WHERE pubkey = ? AND payment_hash = ? AND is_paid = 0
PaymentPaidRows(d, clientPubkey, paymentHash) ==
  { r \in d.records :
      r.pubkey = clientPubkey /\ r.payment_hash = paymentHash /\ r.is_paid = 0 }

\* UPDATE records SET is_paid = 1, fees_paid = ?, settled_at = now() WHERE ...
UpdatePaymentPaid(d, clientPubkey, paymentHash, feesPaid, now) ==
  [ d EXCEPT !.records =
      { IF r \in PaymentPaidRows(d, clientPubkey, paymentHash)
          THEN [r EXCEPT !.is_paid = 1, !.fees_paid = feesPaid, !.settled_at = now]
          ELSE r : r \in @ } ]

\* a mutant: only an update of no row is refused
PaymentChangesBadOnlyZero(changes) == changes = 0

\* if (r.changes !== 1) throw
PaymentChangesBad(changes) == changes # 1

\* a mutant: the catch block re-raises without rolling back
SettlePaymentCatchNoRollback(tx0, cur) == [db |-> cur, ret |-> "throw"]

\* catch (e) { ROLLBACK TRANSACTION; throw e }
SettlePaymentCatch(tx0, cur) == [db |-> Rollback(tx0, cur), ret |-> "throw"]

\* settlePayment(clientPubkey, paymentHash, feesPaid, walletState)
SettlePayment(d, clientPubkey, paymentHash, feesPaid, walletState, now, fault) ==
  LET tx0 == Begin(d)
      changes == Cardinality(PaymentPaidRows(d, clientPubkey, paymentHash))
      d1 == UpdatePaymentPaid(d, clientPubkey, paymentHash, feesPaid, now)
      d2 == UpdateWalletState(d1, clientPubkey, walletState)
  IN IF PaymentChangesBad(changes)
       THEN SettlePaymentCatch(tx0, d1)
     ELSE IF fault = "wallet"
       THEN SettlePaymentCatch(tx0, d1)
     ELSE [db |-> Commit(d2), ret |-> "ok"]

\* ------------------------------------------------------- DB: transactions

\* recToTx(r): the columns of the row that a Transaction carries
RecToTx(r) ==
  [ type |-> IF r.is_outgoing # 0 THEN "outgoing" ELSE "incoming",
    payment_hash |-> r.payment_hash, amount |-> r.amount, fees_paid |-> r.fees_paid,
    created_at |-> r.created_at, expires_at |-> r.expires_at,
    settled_at |-> r.settled_at ]

\* req.from || 0; an absent from is the request value 0
ListFrom(req) == IF req.from = 0 THEN 0 ELSE req.from

\* req.until || now(); an absent until is the request value 0
ListUntil(req, now) == IF req.until = 0 THEN now ELSE req.until

\* the rows of the WHERE clause listTransactions builds
ListRows(d, req, now) ==
  { r \in d.records :
      /\ r.pubkey = req.clientPubkey
      /\ r.created_at >= ListFrom(req)
      /\ r.created_at <= ListUntil(req, now)
      /\ (req.unpaid # TRUE => r.is_paid = 1)
      /\ (req.type # Undefined => r.is_outgoing = IF req.type = "outgoing" THEN 1 ELSE 0) }

\* ORDER BY created_at DESC: every order of the rows with no older row before a
\* newer one (rows of one created_at in any order)
NewestFirst(rows) ==
  { l \in [1..Cardinality(rows) -> rows] :
      /\ \A i, j \in 1..Cardinality(rows) : i # j => l[i] # l[j]
      /\ \A i, j \in 1..Cardinality(rows) : i < j => l[i].created_at >= l[j].created_at }

\* the values bound to LIMIT ? OFFSET ?: args holds the key, from, until, is_paid and
\* is_outgoing only, so both parameters stay unbound, which sqlite reads as NULL
Null == "null"
BoundLimit(req) == Null
BoundOffset(req) == Null

\* what sqlite does with LIMIT NULL OFFSET NULL: the statement fails with a datatype
\* mismatch, or (a build that reads NULL as no limit) every row is returned
NullLimitOutcomes == {"mismatch", "unlimited"}

\* rows offset+1 .. offset+limit of the list
Page(l, limit, offset) ==
  SubSeq(l, offset + 1, IF offset + limit < Len(l) THEN offset + limit ELSE Len(l))

\* listTransactions(req): the results the call can have, "throw" when it raises
ListTransactions(d, req, now) ==
  LET lists == NewestFirst(ListRows(d, req, now))
      txs(l) == [ i \in 1..Len(l) |-> RecToTx(l[i]) ]
  IN IF BoundLimit(req) = Null \/ BoundOffset(req) = Null
       THEN { IF o = "mismatch" THEN [ret |-> "throw", transactions |-> <<>>]
                                ELSE [ret |-> "ok", transactions |-> txs(l)] :
              o \in NullLimitOutcomes, l \in lists }
       ELSE { [ret |-> "ok",
               transactions |-> Page(txs(l), BoundLimit(req), BoundOffset(req))] :
              l \in lists }

\* getLastInvoiceSettledAt: SELECT settled_at FROM records ORDER BY settled_at DESC LIMIT 1
GetLastInvoiceSettledAt(d) ==
  IF d.records = {}
    THEN 0
    ELSE CHOOSE s \in { r.settled_at : r \in d.records } :
           \A r \in d.records : r.settled_at <= s


\* ------------------------------------------------------- Phoenixd: the node

\* the incoming payments the node can complete, by id; payment i belongs to the
\* invoice made with externalId i
PaymentIds == {1, 2, 3}
PaymentHash(i) == <<"h1", "h2", "h3">>[i]

\* interface IncomingPayment, as payments/incoming reports it (completedAt in ms)
Payment(i) ==
  [ externalId |-> i,
    completedAt |-> IF i = 2 THEN 20500 ELSE i * 10000,
    fees |-> IF i = 2 THEN 3000 ELSE 0,
    paymentHash |-> PaymentHash(i) ]

\* Math.round(p.completedAt / 1000)
SettledAt(p) == (p.completedAt + 500) \div 1000

\* the fromSec values a caller passes to syncPaymentsSince
Froms == {0, 21}

\* payments/incoming?from=fromSec * 1000: the completed payments not older than from
Reported(paid, fromSec) ==
  { i \in paid : Payment(i).completedAt >= fromSec * 1000 }

\* the orders in which the node may list a set of payments
Listings(S) ==
  { l \in [1..Cardinality(S) -> S] : \A i, j \in 1..Cardinality(S) : i # j => l[i] # l[j] }

\* payments.reverse()
Reverse(l) == [ i \in 1..Len(l) |-> l[Len(l) + 1 - i] ]

\* ------------------------------------------------------ Phoenixd: the queue

\* the queue, the suspended drains and the history, as one value
QueueState == [ queue |-> queue, drains |-> drains, enqLog |-> enqLog, log |-> log ]

RemoveAt(seq, i) == [ j \in 1..(Len(seq) - 1) |-> IF j < i THEN seq[j] ELSE seq[j + 1] ]

\* a mutant: processIncomingPayments does not go on with the next entry
DropProcessedStops(a, i) ==
  [ a EXCEPT !.queue = IF @ = <<>> THEN <<>> ELSE Tail(@),
             !.drains = RemoveAt(@, i),
             !.log = Append(@, [ev |-> "done", n |-> a.drains[i].e.n]) ]

\* a mutant: the entry to process is the newest one
ProcessedEntryNewest(q) == q[Len(q)]

\* const p = this.incomingPaymentQueue[0]
ProcessedEntry(q) == q[1]

\* a mutant: onIncomingPayment is invoked at once, whatever p.fees is
StartProcessingSkipsFee(a) ==
  [ a EXCEPT !.drains = Append(@, [e |-> a.queue[1], pc |-> "pay"]),
             !.log = Append(@, [ev |-> "pay", n |-> a.queue[1].n]) ]

\* processIncomingPayments up to its first await: p = queue[0]; onLiquidityFee is
\* invoked when p.fees is non-zero, else onIncomingPayment
StartProcessing(a) ==
  LET e == ProcessedEntry(a.queue)
  IN IF e.p.fees # 0
       THEN [ a EXCEPT !.drains = Append(@, [e |-> e, pc |-> "fee"]),
                       !.log = Append(@, [ev |-> "fee", n |-> e.n]) ]
       ELSE [ a EXCEPT !.drains = Append(@, [e |-> e, pc |-> "pay"]),
                       !.log = Append(@, [ev |-> "pay", n |-> e.n]) ]

\* a mutant: every push starts a drain
StartsDrainAlways(len) == len >= 1

\* if (this.incomingPaymentQueue.length === 1) this.processIncomingPayments()
StartsDrain(len) == len = 1

\* scheduleIncomingPayment(p)
ScheduleIncomingPayment(a, p) ==
  LET e == [n |-> Len(a.enqLog) + 1, p |-> p]
      pushed == [ a EXCEPT !.queue = Append(@, e), !.enqLog = Append(@, p) ]
  IN IF StartsDrain(Len(pushed.queue)) THEN StartProcessing(pushed) ELSE pushed

\* for (const p of list) this.scheduleIncomingPayment(p)
RECURSIVE ScheduleAll(_, _)
ScheduleAll(a, list) ==
  IF list = <<>> THEN a
  ELSE ScheduleAll(ScheduleIncomingPayment(a, Payment(Head(list))), Tail(list))

\* a mutant: the payments are scheduled in the order the node listed them
SyncOrderAsListed(list) == list

\* for (const p of payments.reverse())
SyncOrder(list) == Reverse(list)

\* processIncomingPayments after await onLiquidityFee returned: onIncomingPayment
\* is invoked
AfterLiquidityFee(a, i) ==
  [ a EXCEPT !.drains[i].pc = "pay",
             !.log = Append(@, [ev |-> "pay", n |-> a.drains[i].e.n]) ]

\* processIncomingPayments after its try/catch: queue.shift(), then the next entry
DropProcessed(a, i) ==
  LET shifted ==
        [ a EXCEPT !.queue = IF @ = <<>> THEN <<>> ELSE Tail(@),
                   !.drains = RemoveAt(@, i),
                   !.log = Append(@, [ev |-> "done", n |-> a.drains[i].e.n]) ]
  IN IF Len(shifted.queue) > 0 THEN StartProcessing(shifted) ELSE shifted

\* -------------------------------------------------- Phoenixd: the connection

\* a mutant: ws.onclose does not reconnect
OnCloseNoReconnect(t) == t

\* a mutant: ws.onclose and ws.onerror both reconnect
OnCloseTwice(t) == t + 2

\* ws.onclose: one more handler sleeps its 1000 ms before its one subscribe()
OnClose(t) == t + 1

\* terminate(): close this.ws unless it is closed, and forget it; close() on an
\* open socket sends the close frame ("closing"), close() on a connecting one
\* aborts the handshake and destroys its stream ("aborting"), close() on a socket
\* already in CLOSING changes nothing
Terminate(ss, w) ==
  IF w # 0 /\ ss[w] # "closed"
    THEN [socks |-> [ss EXCEPT ![w] = IF @ = "connecting" THEN "aborting"
                                      ELSE IF @ = "open" THEN "closing"
                                      ELSE @],
          ws |-> 0]
    ELSE [socks |-> ss, ws |-> w]

\* ------------------------------------------------------- the ledger's calls

NoCall == [ op |-> "none", key |-> "", id |-> 0, hash |-> NoHash, ret |-> "none" ]

\* the Phoenixd object after construction, a node that has completed nothing
InitAdapter ==
  /\ started = FALSE
  /\ socks = <<>>
  /\ ws = 0
  /\ timers = 0
  /\ lookups = [i \in PaymentIds |-> 0]
  /\ syncs = <<>>
  /\ queue = <<>>
  /\ drains = <<>>
  /\ estimates = 0
  /\ feeTimers = <<>>
  /\ estimated = "none"
  /\ nodePaid = {}
  /\ enqLog = <<>>
  /\ log = <<>>
  /\ lastSync = [list |-> <<>>, base |-> 0]
  /\ boot = [n |-> 0, open |-> {}]

Init ==
  /\ db = EmptyDb
  /\ clock = 1
  /\ last = NoCall
  /\ calls = 0
  /\ feeSums = [paid |-> 0, received |-> 0]
  /\ InitAdapter

\* the ids a caller can name: every id handed out so far, and one never handed out
Ids == 1..(db.seq + 1)

\* one more DB call is made
Called ==
  /\ calls < MaxCalls
  /\ calls' = calls + 1

\* now() advances
Tick ==
  /\ clock < MaxTime
  /\ clock' = clock + 1
  /\ UNCHANGED <<db, last, calls, feeSums, adapterVars>>

DoCreateInvoice ==
  \E k \in Keys :
    /\ Called
    /\ LET r == CreateInvoice(db, k, clock)
       IN /\ db' = r.db
          /\ last' = [NoCall EXCEPT !.op = "createInvoice", !.key = k, !.id = r.ret,
                                    !.ret = "ok"]
    /\ UNCHANGED <<clock, feeSums, adapterVars>>

DoCompleteInvoice ==
  \E id \in Ids, h \in Hashes, a \in Amounts :
    LET invoice == [ payment_hash |-> h, amount |-> a, created_at |-> clock,
                     expires_at |-> clock + DEFAULT_EXPIRY ]
        r == CompleteInvoice(db, id, invoice)
    IN /\ Called
       /\ db' = r.db
       /\ last' = [NoCall EXCEPT !.op = "completeInvoice", !.id = id, !.hash = h,
                                 !.ret = r.ret]
       /\ UNCHANGED <<clock, feeSums, adapterVars>>

DoDeleteInvoice ==
  \E id \in Ids :
    LET r == DeleteInvoice(db, id)
    IN /\ Called
       /\ db' = r.db
       /\ last' = [NoCall EXCEPT !.op = "deleteInvoice", !.id = id,
                                 !.ret = r.ret]
       /\ UNCHANGED <<clock, feeSums, adapterVars>>

DoSettleInvoice ==
  \E k \in Keys, id \in Ids, at \in SettledAts, wal \in WalletStates,
     fee \in FeeAmounts, fault \in Faults :
    /\ Called
    /\ LET r == SettleInvoice(db, k, id, at, wal, fee, fault)
       IN /\ db' = r.db
          /\ last' = [NoCall EXCEPT !.op = "settleInvoice", !.key = k, !.id = id,
                                    !.ret = r.ret]
          /\ feeSums' = IF r.ret = "true" THEN [feeSums EXCEPT !.received = @ + fee]
                                          ELSE feeSums
    /\ UNCHANGED <<clock, adapterVars>>

DoCreatePayment ==
  \E k \in Keys, h \in Hashes, a \in Amounts :
    /\ Called
    /\ LET r == CreatePayment(db, k, [payment_hash |-> h, amount |-> a], clock)
       IN /\ db' = r.db
          /\ last' = [NoCall EXCEPT !.op = "createPayment", !.key = k, !.hash = h,
                                    !.ret = r.ret]
    /\ UNCHANGED <<clock, feeSums, adapterVars>>

DoDeletePayment ==
  \E k \in Keys, h \in Hashes \cup {NoHash} :
    LET r == DeletePayment(db, k, h)
    IN /\ Called
       /\ db' = r.db
       /\ last' = [NoCall EXCEPT !.op = "deletePayment", !.key = k, !.hash = h,
                                 !.ret = r.ret]
       /\ UNCHANGED <<clock, feeSums, adapterVars>>

DoSettlePayment ==
  \E k \in Keys, h \in Hashes \cup {NoHash}, fp \in FeesPaid, wal \in WalletStates,
     fault \in {"none", "wallet"} :
    LET r == SettlePayment(db, k, h, fp, wal, clock, fault)
    IN /\ Called
       /\ db' = r.db
       /\ last' = [NoCall EXCEPT !.op = "settlePayment", !.key = k, !.hash = h,
                                 !.ret = r.ret]
       /\ UNCHANGED <<clock, feeSums, adapterVars>>

DoAddMiningFeePaid ==
  \E fee \in FeeAmounts :
    /\ Called
    /\ LET r == AddMiningFeePaid(db, fee)
       IN /\ db' = r.db
          /\ last' = [NoCall EXCEPT !.op = "addMiningFeePaid", !.ret = r.ret]
          /\ feeSums' = [feeSums EXCEPT !.paid = @ + fee]
    /\ UNCHANGED <<clock, adapterVars>>

NextLedger ==
  \/ Tick
  \/ DoCreateInvoice
  \/ DoCompleteInvoice
  \/ DoDeleteInvoice
  \/ DoSettleInvoice
  \/ DoCreatePayment
  \/ DoDeletePayment
  \/ DoSettlePayment
  \/ DoAddMiningFeePaid

SpecLedger == Init /\ [][NextLedger]_vars

\* ------------------------------------------------------ Phoenixd: its steps

queueVars == <<queue, drains, enqLog, log>>
connVars == <<socks, ws, timers>>
feeVars == <<estimates, feeTimers, estimated>>

SetQueueState(a) ==
  /\ queue' = a.queue
  /\ drains' = a.drains
  /\ enqLog' = a.enqLog
  /\ log' = a.log

\* the sockets the model keeps when subscribe() makes one more: of more than
\* MaxSockets the oldest is forgotten.  It is closed and its onclose handler has
\* run, so no event of it is left, and only a stale this.ws, which subscribe()
\* overwrites, can refer to it
Kept(ss) == IF Len(ss) < MaxSockets THEN ss ELSE Tail(ss)

\* subscribe(): this.ws = new WebSocket(...)
Subscribe ==
  /\ socks' = Append(Kept(socks), "connecting")
  /\ ws' = Len(Kept(socks)) + 1

\* start(): subscribe() and estimateMiningFees(), which calls the node at once
Start ==
  /\ ~started
  /\ started' = TRUE
  /\ Subscribe
  /\ estimates' = estimates + 1
  /\ UNCHANGED <<timers, feeTimers, estimated, lookups, syncs, queueVars, nodePaid,
                 lastSync, boot, ledgerVars>>

\* ws.onopen: this.onOpen()
SockOpens ==
  \E i \in 1..Len(socks) :
    /\ socks[i] = "connecting"
    /\ socks' = [socks EXCEPT ![i] = "open"]
    /\ UNCHANGED <<started, ws, timers, feeVars, lookups, syncs, queueVars, nodePaid,
                   lastSync, boot, ledgerVars>>

\* the node closes the connection, the connection fails, or the handshake fails:
\* the socket goes to CLOSING ("dropping": nothing more arrives on it) with this.ws
\* still set and no sleep started; its error and close events come in a later
\* task (SockClosed), and other callbacks can run in between
SockDrops ==
  \E i \in 1..Len(socks) :
    /\ socks[i] \in {"connecting", "open"}
    /\ socks' = [socks EXCEPT ![i] = "dropping"]
    /\ UNCHANGED <<started, ws, timers, feeVars, lookups, syncs, queueVars, nodePaid,
                   lastSync, boot, ledgerVars>>

\* the close event of a socket in CLOSING (closed by terminate() or by the node,
\* failed, or aborted while connecting): ws.onerror logs, ws.onclose starts its
\* 1000 ms sleep
SockClosed ==
  \E i \in 1..Len(socks) :
    /\ socks[i] \in {"closing", "aborting", "dropping"}
    /\ socks' = [socks EXCEPT ![i] = "closed"]
    /\ timers' = OnClose(timers)
    /\ UNCHANGED <<started, ws, feeVars, lookups, syncs, queueVars, nodePaid,
                   lastSync, boot, ledgerVars>>

\* ws.onclose after its sleep: this.subscribe()
Reconnect ==
  /\ timers > 0
  /\ Len(socks) < MaxSockets \/ socks[1] = "closed"
  /\ timers' = timers - 1
  /\ Subscribe
  /\ UNCHANGED <<started, feeVars, lookups, syncs, queueVars, nodePaid,
                 lastSync, boot, ledgerVars>>

\* the sockets a message can arrive on: ws.onmessage stays attached after
\* terminate(), and a socket closed while open still delivers what the node sent
\* before it read the close frame; one closed while connecting delivers nothing
OpenSocks == { i \in 1..Len(socks) : socks[i] \in {"open", "closing"} }

\* the node completes incoming payment i and sends payment_received on every
\* connection that still receives; onMessage parses it and starts the lookup by hash
NodeCompletes ==
  \E i \in PaymentIds \ nodePaid :
    /\ nodePaid' = nodePaid \cup {i}
    /\ lookups' = [lookups EXCEPT ![i] = @ + Cardinality(OpenSocks)]
    /\ UNCHANGED <<started, connVars, feeVars, syncs, queueVars, lastSync, boot, ledgerVars>>

\* onMessage of a message that is not JSON: the catch block calls terminate()
OnMessageMalformed ==
  /\ OpenSocks # {}
  /\ LET t == Terminate(socks, ws)
     IN socks' = t.socks /\ ws' = t.ws
  /\ UNCHANGED <<started, timers, feeVars, lookups, syncs, queueVars,
                 nodePaid, lastSync, boot, ledgerVars>>

\* onMessage of another message type, or of payment_received without paymentHash
OnMessageIgnored ==
  /\ OpenSocks # {}
  /\ UNCHANGED vars

\* onMessage after await this.call(payments/incoming/{hash}) returned the payment
LookupReturns ==
  \E i \in PaymentIds :
    /\ lookups[i] > 0
    /\ Len(enqLog) < MaxEnqueues
    /\ lookups' = [lookups EXCEPT ![i] = @ - 1]
    /\ SetQueueState(ScheduleIncomingPayment(QueueState, Payment(i)))
    /\ UNCHANGED <<started, connVars, feeVars, syncs, nodePaid, lastSync, boot, ledgerVars>>

\* onMessage after this.call raised: the catch block calls terminate()
LookupFails ==
  \E i \in PaymentIds :
    /\ lookups[i] > 0
    /\ lookups' = [lookups EXCEPT ![i] = @ - 1]
    /\ LET t == Terminate(socks, ws)
       IN socks' = t.socks /\ ws' = t.ws
    /\ UNCHANGED <<started, timers, feeVars, syncs, queueVars, nodePaid,
                   lastSync, boot, ledgerVars>>

\* syncPaymentsSince(fromSec) is called and awaits payments/incoming
SyncStart ==
  \E fromSec \in Froms :
    /\ started
    /\ Len(syncs) < MaxSyncs
    /\ syncs' = Append(syncs, fromSec)
    /\ UNCHANGED <<started, connVars, feeVars, lookups, queueVars, nodePaid, lastSync,
                   boot, ledgerVars>>

\* syncPaymentsSince after the node returned `list`: every payment of the reversed
\* list is scheduled
SyncGot(i, list) ==
  /\ Len(enqLog) + Len(list) <= MaxEnqueues
  /\ syncs' = RemoveAt(syncs, i)
  /\ SetQueueState(ScheduleAll(QueueState, SyncOrder(list)))
  /\ lastSync' = IF list = <<>> THEN lastSync
                 ELSE [list |-> list, base |-> Len(enqLog)]

\* the node lists the payments in any order
SyncReturns ==
  \E i \in 1..Len(syncs) :
    \E list \in Listings(Reported(nodePaid, syncs[i])) :
      /\ SyncGot(i, list)
      /\ UNCHANGED <<started, connVars, feeVars, lookups, nodePaid, boot, ledgerVars>>

\* syncPaymentsSince after this.call raised: the error goes to the caller
SyncFails ==
  \E i \in 1..Len(syncs) :
    /\ syncs' = RemoveAt(syncs, i)
    /\ UNCHANGED <<started, connVars, feeVars, lookups, queueVars, nodePaid, lastSync,
                   boot, ledgerVars>>

\* await this.onLiquidityFee(p.fees) returned
LiquidityFeeReturns ==
  \E i \in 1..Len(drains) :
    /\ drains[i].pc = "fee"
    /\ SetQueueState(AfterLiquidityFee(QueueState, i))
    /\ UNCHANGED <<started, connVars, feeVars, lookups, syncs, nodePaid, lastSync,
                   boot, ledgerVars>>

\* this.onLiquidityFee(p.fees) raised: the catch block logs, the entry is dropped
LiquidityFeeFails ==
  \E i \in 1..Len(drains) :
    /\ drains[i].pc = "fee"
    /\ SetQueueState(DropProcessed(QueueState, i))
    /\ UNCHANGED <<started, connVars, feeVars, lookups, syncs, nodePaid, lastSync,
                   boot, ledgerVars>>

\* await this.onIncomingPayment(...) returned: the entry is dropped
IncomingPaymentReturns ==
  \E i \in 1..Len(drains) :
    /\ drains[i].pc = "pay"
    /\ SetQueueState(DropProcessed(QueueState, i))
    /\ UNCHANGED <<started, connVars, feeVars, lookups, syncs, nodePaid, lastSync,
                   boot, ledgerVars>>

\* this.onIncomingPayment(...) raised: the catch block logs, the entry is dropped
IncomingPaymentFails ==
  \E i \in 1..Len(drains) :
    /\ drains[i].pc = "pay"
    /\ SetQueueState(DropProcessed(QueueState, i))
    /\ UNCHANGED <<started, connVars, feeVars, lookups, syncs, nodePaid, lastSync,
                   boot, ledgerVars>>

\* a mutant: the catch block logs and schedules nothing
AfterEstimateNoRetry(ts, outcome) ==
  IF outcome = "ok" THEN Append(ts, 600000) ELSE ts

\* the timer estimateMiningFees sets at its end: setTimeout(..., 600000) after the
\* try block, setTimeout(..., 60000) in the catch block
AfterEstimate(ts, outcome) ==
  Append(ts, IF outcome = "ok" THEN 600000 ELSE 60000)

\* estimateMiningFees after the node call and onMiningFeeEstimate returned:
\* setTimeout(600000)
EstimateReturns ==
  /\ estimates > 0
  /\ estimates' = estimates - 1
  /\ feeTimers' = AfterEstimate(feeTimers, "ok")
  /\ estimated' = "ok"
  /\ UNCHANGED <<started, connVars, lookups, syncs, queueVars, nodePaid, lastSync,
                 boot, ledgerVars>>

\* estimateMiningFees after the node call or onMiningFeeEstimate raised:
\* setTimeout(60000)
EstimateFails ==
  /\ estimates > 0
  /\ estimates' = estimates - 1
  /\ feeTimers' = AfterEstimate(feeTimers, "failed")
  /\ estimated' = "failed"
  /\ UNCHANGED <<started, connVars, lookups, syncs, queueVars, nodePaid, lastSync,
                 boot, ledgerVars>>

\* a fee timer fires: this.estimateMiningFees()
FeeTimerFires ==
  \E i \in 1..Len(feeTimers) :
    /\ feeTimers' = RemoveAt(feeTimers, i)
    /\ estimates' = estimates + 1
    /\ estimated' = estimated
    /\ UNCHANGED <<started, connVars, lookups, syncs, queueVars, nodePaid, lastSync,
                   boot, ledgerVars>>

NextAdapter ==
  \/ Start
  \/ SockOpens
  \/ SockDrops
  \/ SockClosed
  \/ Reconnect
  \/ NodeCompletes
  \/ OnMessageMalformed
  \/ OnMessageIgnored
  \/ LookupReturns
  \/ LookupFails
  \/ SyncStart
  \/ SyncReturns
  \/ SyncFails
  \/ LiquidityFeeReturns
  \/ LiquidityFeeFails
  \/ IncomingPaymentReturns
  \/ IncomingPaymentFails

\* the subscription, the lookups, the backfill and the queue; the fee estimate of
\* start() stays unanswered
SpecAdapter == Init /\ [][NextAdapter]_vars

NextFees ==
  \/ Start
  \/ SockOpens
  \/ SockDrops
  \/ SockClosed
  \/ Reconnect
  \/ NodeCompletes
  \/ OnMessageMalformed
  \/ LookupFails
  \/ EstimateReturns
  \/ EstimateFails
  \/ FeeTimerFires

\* the subscription and the fee estimation loop
SpecFees == Init /\ [][NextFees]_vars

NextQueue ==
  \/ Start
  \/ SockOpens
  \/ NodeCompletes
  \/ LookupReturns
  \/ SyncStart
  \/ SyncReturns
  \/ LiquidityFeeReturns
  \/ LiquidityFeeFails
  \/ IncomingPaymentReturns
  \/ IncomingPaymentFails

\* the queue fed by lookups and backfills, with callbacks that all return or raise
SpecQueue ==
  /\ Init
  /\ [][NextQueue]_vars
  /\ WF_vars(LiquidityFeeReturns \/ LiquidityFeeFails)
  /\ WF_vars(IncomingPaymentReturns \/ IncomingPaymentFails)

NextConn ==
  \/ Start
  \/ SockOpens
  \/ SockDrops
  \/ SockClosed
  \/ Reconnect
  \/ NodeCompletes
  \/ OnMessageMalformed
  \/ LookupFails

\* the subscription: a closing socket gets closed and a sleeping onclose wakes up
SpecConn ==
  /\ Init
  /\ [][NextConn]_vars
  /\ WF_vars(SockClosed)
  /\ WF_vars(Reconnect)

\* ------------------------------------------- the reconciler and a restart

\* the client that owns every invoice of the composition
InvoiceOwner == "k1"

\* makeInvoice for payment i: createInvoice, then completeInvoice with the node's
\* invoice; the node reports the record id as the payment's externalId
MakeInvoice(d, i) ==
  LET made == CreateInvoice(d, InvoiceOwner, 1)
      invoice == [ payment_hash |-> PaymentHash(i), amount |-> 1000, created_at |-> 1,
                   expires_at |-> 1 + DEFAULT_EXPIRY ]
  IN CompleteInvoice(made.db, made.ret, invoice).db

\* the ledger with an unpaid invoice for every payment the node can complete
InvoicedDb == MakeInvoice(MakeInvoice(MakeInvoice(EmptyDb, 1), 2), 3)

InitSystem ==
  /\ db = InvoicedDb
  /\ clock = 1
  /\ last = NoCall
  /\ calls = 0
  /\ feeSums = [paid |-> 0, received |-> 0]
  /\ InitAdapter

\* the ledger holds payment i's record as paid
Settled(d, i) == \E r \in d.records : r.id = i /\ r.is_outgoing = 0 /\ r.is_paid = 1

\* on "payment received": look up the incoming record by external id and call
\* settleInvoice for its owner; raises when there is no such record
OnIncomingPayment(d, p, walletState, miningFee, fault) ==
  IF GetInvoiceById(d, p.externalId) = {}
    THEN [db |-> d, ret |-> "throw"]
    ELSE SettleInvoice(d, ExpectedPubkey(d, p.externalId), p.externalId, SettledAt(p),
                       walletState, miningFee, fault)

\* await this.onIncomingPayment(...) with the reconciler as the callback: it returns
\* or raises, and either way the entry is dropped
PaymentReceived ==
  \E i \in 1..Len(drains), wal \in WalletStates, fault \in Faults :
    /\ drains[i].pc = "pay"
    /\ db' = OnIncomingPayment(db, drains[i].e.p, wal, 0, fault).db
    /\ SetQueueState(DropProcessed(QueueState, i))
    /\ UNCHANGED <<clock, last, calls, feeSums, started, connVars, feeVars, lookups, syncs,
                   nodePaid, lastSync, boot>>

\* the process is restarted: the queue, the pending calls and the sockets of the old
\* process are gone; the new one starts and calls
\* syncPaymentsSince(getLastInvoiceSettledAt())
Restart ==
  /\ started
  /\ boot.n < MaxRestarts
  /\ boot' = [n |-> boot.n + 1, open |-> { i \in nodePaid : ~Settled(db, i) }]
  /\ socks' = <<"connecting">>
  /\ ws' = 1
  /\ timers' = 0
  /\ lookups' = [i \in PaymentIds |-> 0]
  /\ syncs' = <<GetLastInvoiceSettledAt(db)>>
  /\ queue' = <<>>
  /\ drains' = <<>>
  /\ enqLog' = <<>>
  /\ log' = <<>>
  /\ lastSync' = [list |-> <<>>, base |-> 0]
  /\ UNCHANGED <<started, feeVars, nodePaid, ledgerVars>>

NextSystem ==
  \/ Start
  \/ SockOpens
  \/ NodeCompletes
  \/ LookupReturns
  \/ LookupFails
  \/ SyncReturns
  \/ LiquidityFeeReturns
  \/ LiquidityFeeFails
  \/ PaymentReceived
  \/ Restart

\* the adapter, the reconciler and the ledger over one run and a restart
SpecSystem == InitSystem /\ [][NextSystem]_vars

\* ------------------------------------------------------------ claims: ledger

\* the incoming rows of the ledger
IncomingRows == { r \in db.records : r.is_outgoing = 0 }

\* C1: for an unpaid incoming record owned by clientKey, settleInvoice returns true
\* and commits paid = 1, settled_at, the received-fee increment and the supplied
\* wallet state; every later settleInvoice on that record by that clientKey, with
\* any settledAt, wallet state or fee, returns false and changes nothing.
C1_IdempotentSettlement ==
  \A r \in IncomingRows, at \in SettledAts, wal \in WalletStates, fee \in FeeAmounts :
    LET first == SettleInvoice(db, r.pubkey, r.id, at, wal, fee, "none")
    IN IF r.is_paid = 0
         THEN /\ first.ret = "true"
              /\ first.db.records =
                   (db.records \ {r}) \cup {[r EXCEPT !.is_paid = 1, !.settled_at = at]}
              /\ GetFees(first.db) =
                   [GetFees(db) EXCEPT !.miningFeeReceived = @ + fee]
              /\ ListWallets(first.db) =
                   { w \in ListWallets(db) : w.pubkey # r.pubkey }
                     \cup {[pubkey |-> r.pubkey, state |-> wal]}
              /\ first.db.seq = db.seq
              /\ \A at2 \in SettledAts, wal2 \in WalletStates, fee2 \in FeeAmounts,
                    fault2 \in Faults :
                   SettleInvoice(first.db, r.pubkey, r.id, at2, wal2, fee2, fault2)
                     = [db |-> first.db, ret |-> "false"]
         ELSE \A fault \in Faults :
                SettleInvoice(db, r.pubkey, r.id, at, wal, fee, fault)
                  = [db |-> db, ret |-> "false"]

\* a second settleInvoice by the owner has just returned false on a record that an
\* earlier settleInvoice settled (its settled_at is one only settleInvoice writes)
C1_Witness ==
  /\ last.op = "settleInvoice"
  /\ last.ret = "false"
  /\ \E r \in IncomingRows :
       /\ r.id = last.id /\ r.pubkey = last.key
       /\ r.is_paid = 1 /\ r.settled_at \in SettledAts
       /\ \E w \in db.wallets : w.pubkey = r.pubkey

\* C2: settleInvoice with a clientKey that does not own the target record raises and
\* changes nothing: no record, no wallet row, no fee counter.
C2_UnauthorizedSettlement ==
  \A r \in db.records, k \in Keys, at \in SettledAts, wal \in WalletStates,
     fee \in FeeAmounts, fault \in Faults :
    r.pubkey # k =>
      SettleInvoice(db, k, r.id, at, wal, fee, fault) = [db |-> db, ret |-> "throw"]

\* settleInvoice has just raised for an unpaid incoming record of another client
C2_Witness ==
  /\ last.op = "settleInvoice"
  /\ last.ret = "throw"
  /\ \E r \in IncomingRows :
       r.id = last.id /\ r.pubkey # last.key /\ r.is_paid = 0 /\ r.settled_at = 0

\* C3: when the received-fee statement or the wallet upsert of settleInvoice raises
\* after the paid flag was flipped, the call raises and the database is what it was
\* before the call, and a later settleInvoice on the record returns true.
C3_SettleInvoiceRollback ==
  \A r \in IncomingRows, at \in SettledAts, wal \in WalletStates, fee \in FeeAmounts,
     fault \in {"fees", "wallet"} :
    r.is_paid = 0 =>
      LET failed == SettleInvoice(db, r.pubkey, r.id, at, wal, fee, fault)
      IN /\ failed = [db |-> db, ret |-> "throw"]
         /\ SettleInvoice(failed.db, r.pubkey, r.id, at, wal, fee, "none").ret = "true"

\* settleInvoice by the owner has just raised on an unpaid record (so a statement
\* after the flip raised) while the fee row exists
C3_Witness ==
  /\ last.op = "settleInvoice"
  /\ last.ret = "throw"
  /\ db.fees # {}
  /\ \E r \in IncomingRows :
       r.id = last.id /\ r.pubkey = last.key /\ r.is_paid = 0 /\ r.settled_at = 0

\* C4: when the wallet upsert of settlePayment raises, the call raises and the
\* database is what it was before the call: the record is unpaid, fees_paid and
\* settled_at are unchanged, the wallet row is unchanged.
C4_SettlePaymentRollback ==
  \A k \in Keys, h \in Hashes \cup {NoHash}, fp \in FeesPaid, wal \in WalletStates :
    Cardinality(PaymentPaidRows(db, k, h)) = 1 =>
      SettlePayment(db, k, h, fp, wal, clock, "wallet") = [db |-> db, ret |-> "throw"]

\* settlePayment has just raised although exactly one unpaid row, an outgoing one,
\* matches its key and hash: its wallet upsert raised
C4_Witness ==
  /\ last.op = "settlePayment"
  /\ last.ret = "throw"
  /\ Cardinality(PaymentPaidRows(db, last.key, last.hash)) = 1
  /\ \A r \in PaymentPaidRows(db, last.key, last.hash) :
       r.is_outgoing = 1 /\ r.fees_paid = 0 /\ r.settled_at = 0

\* C5: settlePayment succeeds only when exactly one unpaid record matches
\* (clientKey, paymentHash); with no match (a second call for a settled hash
\* included) or more than one it raises and changes nothing.
C5_SettlePaymentExactlyOne ==
  \A k \in Keys, h \in Hashes \cup {NoHash}, fp \in FeesPaid, wal \in WalletStates,
     fault \in {"none", "wallet"} :
    LET n == Cardinality(PaymentPaidRows(db, k, h))
        res == SettlePayment(db, k, h, fp, wal, clock, fault)
    IN /\ res.ret = "ok" => n = 1
       /\ n # 1 => res = [db |-> db, ret |-> "throw"]
       /\ res.ret = "ok" =>
            \A fp2 \in FeesPaid, wal2 \in WalletStates, fault2 \in {"none", "wallet"} :
              SettlePayment(res.db, k, h, fp2, wal2, clock, fault2)
                = [db |-> res.db, ret |-> "throw"]

\* settlePayment has just raised with two unpaid rows matching its key and hash
C5_Witness ==
  /\ last.op = "settlePayment"
  /\ last.ret = "throw"
  /\ Cardinality(PaymentPaidRows(db, last.key, last.hash)) >= 2

\* C11 as stated: deleteInvoice on a paid incoming record, or on an id no record
\* has, returns without an error and leaves the ledger unchanged.
C11_DeleteInvoiceUnsettledOnly ==
  \A id \in Ids :
    (\A r \in IncomingRows : r.id = id => r.is_paid = 1)
      => DeleteInvoice(db, id) = [db |-> db, ret |-> "ok"]

\* the paid flag of record id in database d, -1 when d has no such record
PaidFlag(d, id) ==
  IF \E r \in d.records : r.id = id
    THEN (CHOOSE r \in d.records : r.id = id).is_paid
    ELSE -1

\* C12: no step of the ledger sets a record's paid flag back: a record that is paid
\* before a call is paid after it or is gone, so the flag goes from 0 to 1 at most
\* once.
C12_PaidNeverReversed ==
  [][ \A id \in 1..db.seq : PaidFlag(db, id) = 1 => PaidFlag(db', id) \in {1, -1} ]_vars

\* completeInvoice has just rewritten a paid record, which is still paid
C12_Witness ==
  /\ last.op = "completeInvoice"
  /\ last.ret = "ok"
  /\ PaidFlag(db, last.id) = 1

\* C13: in every committed ledger state a record's settled_at is non-zero exactly
\* when the record is paid.
C13_SettledAtIffPaid ==
  \A r \in db.records : (r.settled_at # 0) <=> (r.is_paid = 1)

\* a settlement has just committed next to a record that is still unpaid
C13_Witness ==
  /\ last.op \in {"settleInvoice", "settlePayment"}
  /\ last.ret \in {"true", "ok"}
  /\ \E r \in db.records : r.is_paid = 1 /\ r.settled_at # 0
  /\ \E r \in db.records : r.is_paid = 0 /\ r.settled_at = 0

\* getFees() after addMiningFeePaid(a), then the settleInvoice call c (or none),
\* then addMiningFeePaid(b)
FeesAfter(a, c, b) ==
  LET d1 == AddMiningFeePaid(db, a).db
      d2 == IF c.id = 0 THEN d1
            ELSE SettleInvoice(d1, c.key, c.id, c.at, c.wal, c.fee, c.fault).db
  IN GetFees(AddMiningFeePaid(d2, b).db)

\* the settleInvoice calls of the owners on the incoming rows of the ledger, with and
\* without a statement that raises, and no call (id 0)
SettleCalls ==
  { [ key |-> r.pubkey, id |-> r.id, at |-> 10,
      wal |-> [balance |-> 0, channelSize |-> 0, feeCredit |-> 0],
      fee |-> fee, fault |-> fault ] :
    r \in IncomingRows, fee \in FeeAmounts, fault \in Faults }
  \cup { [ key |-> "k1", id |-> 0, at |-> 10,
           wal |-> [balance |-> 0, channelSize |-> 0, feeCredit |-> 0],
           fee |-> 0, fault |-> "none" ] }

\* C14: the paid counter is the sum of the fees passed to addMiningFeePaid and the
\* received counter the sum of the fees of the settleInvoice calls that committed;
\* addMiningFeePaid(a) and addMiningFeePaid(b), in either order and with a
\* settleInvoice call between them, raise the paid counter by a + b and the received
\* counter by that call's fee when it commits, by nothing when it does not.
C14_FeeAccumulation ==
  /\ GetFees(db) = [miningFeePaid |-> feeSums.paid, miningFeeReceived |-> feeSums.received]
  /\ \A c \in SettleCalls :
       LET committed ==
             c.id # 0 /\ SettleInvoice(db, c.key, c.id, c.at, c.wal, c.fee, c.fault).ret = "true"
           received == GetFees(db).miningFeeReceived + (IF committed THEN c.fee ELSE 0)
       IN \A a, b \in FeeAmounts :
            LET ab == FeesAfter(a, c, b)
            IN /\ a < b => ab = FeesAfter(b, c, a)
               /\ ab = [ miningFeePaid |-> GetFees(db).miningFeePaid + a + b,
                         miningFeeReceived |-> received ]

\* addMiningFeePaid has just added to a fee row that a settlement created
C14_Witness ==
  /\ last.op = "addMiningFeePaid"
  /\ feeSums = [paid |-> 1, received |-> 1]
  /\ \E r \in IncomingRows : r.is_paid = 1

\* the listing requests of a client for its paid incoming records over a window
PaidIncomingReqs ==
  [ clientPubkey : Keys, from : {0, 1}, until : {1, 2}, unpaid : {FALSE},
    type : {"incoming"}, limit : {1, 2}, offset : {0, 1} ]

\* C15 as stated: listTransactions with type = incoming and unpaid = false returns
\* the paid incoming records of the client created in [from, until], newest first,
\* without the first `offset` of them and at most `limit` of them.
C15_ListingFilters ==
  \A req \in PaidIncomingReqs : \A res \in ListTransactions(db, req, clock) :
    LET rows == { r \in IncomingRows :
                    /\ r.pubkey = req.clientPubkey /\ r.is_paid = 1
                    /\ r.created_at >= req.from /\ r.created_at <= req.until }
    IN /\ res.ret = "ok"
       /\ \E l \in NewestFirst(rows) :
            res.transactions =
              Page([ i \in 1..Len(l) |-> RecToTx(l[i]) ], req.limit, req.offset)

\* C19 as stated: settlePayment and deletePayment, called with the key and the
\* payment hash of an incoming record, leave that record as it is: not marked paid,
\* not deleted.
C19_OutgoingPathOnly ==
  \A r \in IncomingRows :
    r.payment_hash \in Hashes =>
      /\ r \in DeletePayment(db, r.pubkey, r.payment_hash).db.records
      /\ \A fp \in FeesPaid, wal \in WalletStates, fault \in {"none", "wallet"} :
           r \in SettlePayment(db, r.pubkey, r.payment_hash, fp, wal, clock, fault).db.records

\* ----------------------------------------------------------- claims: adapter

\* the positions of the log
LogIdx == 1..Len(log)

\* the log positions at which onIncomingPayment was invoked
PayIdx == { i \in LogIdx : log[i].ev = "pay" }

\* C6: for entries pushed in the order N1, N2, N3, the callbacks of an entry run to
\* completion before those of the next entry begin, in push order: the log never
\* returns to an earlier entry, nothing follows an entry's pop but later entries,
\* an entry's callbacks begin only after the pop of the entry pushed before it, and
\* the entry processed is the payment pushed at that position.
C6_QueueOrder ==
  /\ \A i, j \in LogIdx :
       i < j => /\ log[i].n <= log[j].n
                /\ log[i].ev = "done" => log[i].n < log[j].n
  /\ \A i \in LogIdx :
       log[i].n > 1 => \E j \in 1..(i - 1) : log[j] = [ev |-> "done", n |-> log[i].n - 1]
  /\ \A i \in 1..Len(drains) : drains[i].e.p = enqLog[drains[i].e.n]

\* three entries were processed to the end, pushed in an order that is not the order
\* of their completion at the node
C6_Witness ==
  /\ \E i \in LogIdx : log[i] = [ev |-> "done", n |-> 3]
  /\ enqLog[1].completedAt > enqLog[2].completedAt
  /\ enqLog[2].completedAt < enqLog[3].completedAt

\* C7: at most one processIncomingPayments is suspended at an await, its entry is
\* the front of the queue, and the queue is exactly the last pushes in push order
\* (a push into a non-empty queue appends and starts nothing).
C7_SingleDrain ==
  /\ Len(drains) <= 1
  /\ \A i \in 1..Len(drains) : queue # <<>> /\ drains[i].e = Head(queue)
  /\ \A i \in 1..Len(queue) :
       /\ queue[i].n = Len(enqLog) - Len(queue) + i
       /\ queue[i].p = enqLog[queue[i].n]

\* while the front entry awaits onIncomingPayment two more entries were pushed, and
\* a lookup and a backfill are still in flight
C7_Witness ==
  /\ Len(queue) = 3
  /\ Len(drains) = 1
  /\ drains[1].pc = "pay"
  /\ \E i \in PaymentIds : lookups[i] > 0
  /\ syncs # <<>>

\* the pushes of the last backfill
SyncPushes == (lastSync.base + 1)..(lastSync.base + Len(lastSync.list))

\* C8 as stated: the payment-received callback fires for the payments of a backfill
\* list in chronological order of completion time, oldest first (for the list
\* [P3, P1, P2] in the order P1, P2, P3).
C8_BackfillChronological ==
  \A i, j \in PayIdx :
    (i < j /\ log[i].n \in SyncPushes /\ log[j].n \in SyncPushes)
      => enqLog[log[i].n].completedAt <= enqLog[log[j].n].completedAt

\* what syncPaymentsSince does instead (C8): the payments of a backfill list are
\* pushed in the reverse of the order the node listed them, and the
\* payment-received callbacks invoked for them are invoked in push order.
C8_BackfillReversed ==
  /\ \A k \in 1..Len(lastSync.list) :
       enqLog[lastSync.base + k] = Payment(lastSync.list[Len(lastSync.list) + 1 - k])
  /\ \A i, j \in PayIdx :
       (i < j /\ log[i].n \in SyncPushes /\ log[j].n \in SyncPushes)
         => log[i].n < log[j].n

\* the node listed [P3, P1, P2] and the payment-received callback was invoked for
\* P2, then P1, then P3
C8_Witness ==
  /\ lastSync = [list |-> <<3, 1, 2>>, base |-> 0]
  /\ \E i, j, k \in PayIdx :
       /\ i < j /\ j < k
       /\ enqLog[log[i].n] = Payment(2)
       /\ enqLog[log[j].n] = Payment(1)
       /\ enqLog[log[k].n] = Payment(3)

\* every push of the queue was processed and no call awaits the node
Quiescent ==
  /\ syncs = <<>>
  /\ queue = <<>>
  /\ drains = <<>>
  /\ \A i \in PaymentIds : lookups[i] = 0

\* payment i was pushed on the queue since the last start of the process; no
\* callback is invoked for a payment that was not
Pushed(i) == \E n \in 1..Len(enqLog) : enqLog[n] = Payment(i)

\* C9 as stated: after a restart that calls
\* syncPaymentsSince(getLastInvoiceSettledAt()), every payment the node had completed
\* and the ledger had not settled at the restart is delivered to the
\* payment-received callback: once the backfill has returned and the queue is
\* drained, each of them was at least pushed on the queue.
C9_RestartClosesGaps ==
  (boot.n > 0 /\ Quiescent) => \A i \in boot.open : Pushed(i)

\* C10 as stated: the liquidity-fee callback and the payment-received callback are
\* each invoked at most once per payment hash.
C10_AtMostOncePerHash ==
  \A i, j \in LogIdx :
    (i < j /\ log[i].ev = log[j].ev /\ log[i].ev \in {"fee", "pay"})
      => enqLog[log[i].n].paymentHash # enqLog[log[j].n].paymentHash

\* the events of the n-th push, in the order they happened
EventsOf(n) ==
  LET OfN(e) == e.n = n
      es == SelectSeq(log, OfN)
  IN [ i \in 1..Len(es) |-> es[i].ev ]

\* C20: for every entry, onLiquidityFee is invoked first, and only for a non-zero fee;
\* onIncomingPayment is invoked after it returned; the entry is popped after both, or
\* right after a callback raised: an entry whose onLiquidityFee raised is popped
\* without onIncomingPayment.  An entry is in the queue until its pop, and while its
\* onLiquidityFee runs nothing else has happened to it.
C20_FeeBeforePayment ==
  /\ \A n \in 1..Len(enqLog) :
       /\ EventsOf(n) \in
            IF enqLog[n].fees # 0
              THEN { <<>>, <<"fee">>, <<"fee", "pay">>, <<"fee", "pay", "done">>,
                     <<"fee", "done">> }
              ELSE { <<>>, <<"pay">>, <<"pay", "done">> }
       /\ (\E i \in 1..Len(queue) : queue[i].n = n)
            <=> (\A k \in 1..Len(EventsOf(n)) : EventsOf(n)[k] # "done")
  /\ \A i \in 1..Len(drains) :
       EventsOf(drains[i].e.n) =
         IF drains[i].pc = "fee" THEN <<"fee">>
         ELSE IF drains[i].e.p.fees # 0 THEN <<"fee", "pay">> ELSE <<"pay">>

\* an entry whose onLiquidityFee raised was popped without onIncomingPayment, and a
\* later entry with a fee went through both callbacks
C20_Witness ==
  \E n, k \in 1..Len(enqLog) :
    /\ n < k
    /\ EventsOf(n) = <<"fee", "done">>
    /\ EventsOf(k) = <<"fee", "pay", "done">>

\* how often event ev happened to the n-th push
Times(n, ev) == Cardinality({ i \in LogIdx : log[i] = [ev |-> ev, n |-> n] })

\* the n-th push is in the queue
Queued(n) == \E i \in 1..Len(queue) : queue[i].n = n

\* C16: no callback is invoked twice for an entry and no entry is popped twice (no
\* retry); when every callback invocation returns or raises, every pushed entry is
\* removed in the end and a non-empty queue becomes empty.
C16_QueueNeverStalls ==
  /\ [](\A n \in 1..MaxEnqueues : \A ev \in {"fee", "pay", "done"} : Times(n, ev) <= 1)
  /\ \A n \in 1..MaxEnqueues : (Len(enqLog) >= n) ~> (Len(enqLog) >= n /\ ~Queued(n))
  /\ (queue # <<>>) ~> (queue = <<>>)

\* the first of three entries was dropped when its onLiquidityFee raised, the others
\* were processed after it and the queue is empty
C16_Witness ==
  /\ Len(enqLog) = 3
  /\ queue = <<>>
  /\ EventsOf(1) = <<"fee", "done">>
  /\ Times(2, "pay") = 1
  /\ Times(3, "done") = 1

\* the sockets that are connecting or open, and those that are closing
Live == { i \in 1..Len(socks) : socks[i] \in {"connecting", "open"} }
Closing == { i \in 1..Len(socks) : socks[i] \in {"closing", "aborting", "dropping"} }

\* C17: whenever, after start(), no connection is connecting or open (the node
\* closed it, it failed, or terminate() tore it down), a new connection is made in
\* the end, however many were made before: a sleeping onclose handler can always
\* subscribe, there is no retry limit.  A socket opens, and so invokes onOpen, once:
\* a step either is a subscribe(), which adds a connecting socket, or leaves every
\* socket that is open or connecting after it one that was connecting (or open)
\* before it.
C17_ReconnectsForever ==
  /\ (started /\ Live = {}) ~> (Live # {})
  /\ [](timers > 0 => ENABLED Reconnect)
  /\ [][ \/ socks' = Append(Kept(socks), "connecting")
         \/ /\ Len(socks') = Len(socks)
            /\ \A i \in 1..Len(socks) :
                 /\ socks'[i] = "open" => socks[i] \in {"connecting", "open"}
                 /\ socks'[i] = "connecting" => socks[i] = "connecting" ]_vars

\* a connection is closed and its successor is open
C17_Witness ==
  /\ socks = <<"closed", "open">>
  /\ ws = 2
  /\ timers = 0

\* C18: at most one socket is connecting or open; after start() there is exactly one
\* socket that is live or closing, or one onclose handler about to subscribe, never
\* two.
C18_OneConnection ==
  /\ Cardinality(Live) <= 1
  /\ started => Cardinality(Live) + Cardinality(Closing) + timers = 1

\* after a reconnect the node closed the open connection, and before its close
\* event came a lookup started earlier failed and called terminate()
C18_Witness ==
  /\ socks = <<"closed", "dropping">>
  /\ ws = 0
  /\ nodePaid # {}
  /\ enqLog = <<>>
  /\ \A i \in PaymentIds : lookups[i] = 0

\* C21: after start() exactly one estimateMiningFees attempt is awaiting the node or
\* scheduled by a timer, never none and never two, in every state of the
\* subscription; the timer an attempt leaves behind is the 600000 ms one when the
\* node call and onMiningFeeEstimate returned and the 60000 ms one when either
\* raised.
C21_FeeLoopNeverStops ==
  /\ started => estimates + Len(feeTimers) = 1
  /\ ~started => estimates = 0 /\ feeTimers = <<>>
  /\ \A i \in 1..Len(feeTimers) :
       feeTimers[i] = IF estimated = "ok" THEN 600000 ELSE 60000
  /\ (estimated = "none") => feeTimers = <<>>

\* an attempt failed and its retry is scheduled after 60000 ms while the
\* subscription waits to reconnect
C21_Witness ==
  /\ feeTimers = <<60000>>
  /\ estimates = 0
  /\ socks = <<"closed">>
  /\ timers = 1

====
